---- MODULE Spec2Model ----
(***************************************************************************)
(* mcp-server-authless: a Worker (the Front Router) forwards requests      *)
(* under /mcp and /sse to one Durable Object (MyMCP, the Dispatch          *)
(* Instance), which extracts the bearer token, builds a per-request        *)
(* context and hands the request to one of the two transports of an        *)
(* McpServer holding the tools add and calculate.                          *)
(*                                                                         *)
(* Strings are TLA+ strings (Len, \o and SubSeq act on them as on          *)
(* sequences of characters).  JavaScript values that may be undefined or   *)
(* null are records with a tag, because a string and a marker cannot be    *)
(* compared.                                                               *)
(***************************************************************************)
EXTENDS Integers, Sequences, FiniteSets, TLC

VARIABLES
    pool,        \* the requests clients may send in this run (fixed by Init)
    toolThrows,  \* tool names whose registration the McpServer rejects (fixed by Init)
    objects,     \* Durable Object id -> the MyMCP instance constructed for it
    constructed, \* number of MyMCP constructor runs so far
    reqs         \* one record per request received by the Worker, in arrival order

vars == <<pool, toolThrows, objects, constructed, reqs>>

(***************************************************************************)
(* Bounds                                                                  *)
(***************************************************************************)
\* requests the Worker receives in one run
MaxRequests == 2
\* requests the Worker receives in one run of repeated calls
MaxCalls == 3

(***************************************************************************)
(* JavaScript strings                                                      *)
(***************************************************************************)
\* String.prototype.startsWith(prefix)
StartsWith(s, prefix) ==
    /\ Len(s) >= Len(prefix)
    /\ SubSeq(s, 1, Len(prefix)) = prefix

\* String.prototype.slice(start) for 0 <= start
Slice(s, start) == SubSeq(s, start + 1, Len(s))

\* a value that is a string or null/undefined
Absent == [defined |-> FALSE, value |-> ""]
Some(s) == [defined |-> TRUE, value |-> s]

(***************************************************************************)
(* JavaScript numbers.  A number is a fraction num/den in lowest terms     *)
(* with den > 0; den = 0 encodes what IEEE division by zero gives:         *)
(* Infinity (num = 1), -Infinity (num = -1) and NaN (num = 0).  On the     *)
(* small dyadic and decimal inputs of NumberValues the four operators are  *)
(* exact in double precision, so the fraction is the double.               *)
(***************************************************************************)
\* digits String() may have to write after the decimal point
FractionDigits == 4

Abs(n) == IF n < 0 THEN -n ELSE n

RECURSIVE Gcd(_, _)
Gcd(m, n) == IF n = 0 THEN m ELSE Gcd(n, m % n)

Sign(n) == IF n > 0 THEN 1 ELSE IF n < 0 THEN -1 ELSE 0

\* the tagged JavaScript values a tool argument can hold
Undefined == [type |-> "undefined", num |-> 0, den |-> 1, str |-> ""]
StringValue(s) == [type |-> "string", num |-> 0, den |-> 1, str |-> s]
Num(n, d) ==
    IF d = 0 THEN [type |-> "number", num |-> Sign(n), den |-> 0, str |-> ""]
    ELSE LET g == Gcd(Abs(n), Abs(d))
             k == IF d < 0 THEN -1 ELSE 1
         IN [type |-> "number", num |-> (k * n) \div g, den |-> (k * d) \div g, str |-> ""]

IsNaN(x) == x.den = 0 /\ x.num = 0

\* a + b, a - b, a * b, a / b on finite operands
NumAdd(x, y) == Num(x.num * y.den + y.num * x.den, x.den * y.den)
NumSub(x, y) == Num(x.num * y.den - y.num * x.den, x.den * y.den)
NumMul(x, y) == Num(x.num * y.num, x.den * y.den)
NumDiv(x, y) == Num(x.num * y.den, x.den * y.num)

Digit(d) == SubSeq("0123456789", d + 1, d + 1)

RECURSIVE NatToString(_)
NatToString(n) == IF n < 10 THEN Digit(n) ELSE NatToString(n \div 10) \o Digit(n % 10)

\* the decimal digits of r/d after the point, at most k of them
RECURSIVE FractionToString(_, _, _)
FractionToString(r, d, k) ==
    IF r = 0 \/ k = 0 THEN ""
    ELSE Digit((r * 10) \div d) \o FractionToString((r * 10) % d, d, k - 1)

\* String(x) for a number x (Number::toString, radix 10, no exponent form)
NumberToString(x) ==
    IF x.den = 0
    THEN (IF x.num > 0 THEN "Infinity" ELSE IF x.num < 0 THEN "-Infinity" ELSE "NaN")
    ELSE LET m == Abs(x.num)
             whole == m \div x.den
             rest == m % x.den
         IN (IF x.num < 0 THEN "-" ELSE "")
            \o NatToString(whole)
            \o (IF rest = 0 THEN "" ELSE "." \o FractionToString(rest, x.den, FractionDigits))

(***************************************************************************)
(* Tool schemas (zod) and handlers, index.ts init()                        *)
(***************************************************************************)
\* z.number(): a number that is not NaN
ZNumber(v) == v.type = "number" /\ ~IsNaN(v)

\* z.enum(["add", "subtract", "multiply", "divide"])
OperationEnum == {"add", "subtract", "multiply", "divide"}
ZOperation(v) == v.type = "string" /\ v.str \in OperationEnum

\* mutant: a schema that checks nothing
AddSchemaAny(args) == TRUE

\* { a: z.number(), b: z.number() }
AddSchema(args) == ZNumber(args.a) /\ ZNumber(args.b)

\* { operation: z.enum([...]), a: z.number(), b: z.number() }
CalculateSchema(args) == ZOperation(args.operation) /\ ZNumber(args.a) /\ ZNumber(args.b)

TextItem(t) == [type |-> "text", text |-> t]

\* mutant: the handler adds into a total kept by the instance, so its result
\* grows with the handler runs that ended before it
AddHandlerRunningTotal(args, context) ==
    LET ran == Cardinality({j \in 1..Len(reqs) : reqs[j].handlerRuns # <<>>})
    IN [content |-> <<TextItem(NumberToString(
                         NumAdd(NumAdd(args.a, args.b), Num(ran, 1))))>>,
        logged |-> context.authToken]

\* mutant: the handler refuses a call that carries no token
AddHandlerEnforcing(args, context) ==
    IF ~context.authToken.defined
    THEN [content |-> <<TextItem("Error: Unauthorized")>>, logged |-> context.authToken]
    ELSE [content |-> <<TextItem(NumberToString(NumAdd(args.a, args.b)))>>,
          logged |-> context.authToken]

\* the handler of "add"
AddHandler(args, context) ==
    [content |-> <<TextItem(NumberToString(NumAdd(args.a, args.b)))>>,
     logged |-> context.authToken]

\* mutant: the operands of the subtraction are exchanged
CalculateSwitchSwapped(operation, a, b) ==
    CASE operation = "add" -> NumAdd(a, b)
      [] operation = "subtract" -> NumSub(b, a)
      [] operation = "multiply" -> NumMul(a, b)
      [] operation = "divide" -> NumDiv(a, b)

\* the switch of the handler of "calculate": the number, when one is computed
CalculateSwitch(operation, a, b) ==
    CASE operation = "add" -> NumAdd(a, b)
      [] operation = "subtract" -> NumSub(a, b)
      [] operation = "multiply" -> NumMul(a, b)
      [] operation = "divide" -> NumDiv(a, b)

\* mutant: the divisor is not tested
CalculateHandlerUnguarded(args, context) ==
    [content |-> <<TextItem(NumberToString(
                     CalculateSwitch(args.operation.str, args.a, args.b)))>>,
     logged |-> context.authToken]

\* the handler of "calculate"
CalculateHandler(args, context) ==
    IF args.operation.str = "divide" /\ args.b = Num(0, 1)
    THEN [content |-> <<TextItem("Error: Cannot divide by zero")>>,
          logged |-> context.authToken]
    ELSE [content |-> <<TextItem(NumberToString(
                          CalculateSwitch(args.operation.str, args.a, args.b)))>>,
          logged |-> context.authToken]

\* the two registrations of init(), in order
AddTool == [name |-> "add", schema |-> "add", handler |-> "add"]
CalculateTool == [name |-> "calculate", schema |-> "calculate", handler |-> "calculate"]

Validate(schema, args) ==
    IF schema = "add" THEN AddSchema(args) ELSE CalculateSchema(args)

Invoke(handler, args, context) ==
    IF handler = "add" THEN AddHandler(args, context) ELSE CalculateHandler(args, context)

(***************************************************************************)
(* McpServer: the tool registry and the dispatch of one tools/call.        *)
(* The protocol library is not part of the repository; its registration    *)
(* call and its dispatch algorithm follow the repository's description of  *)
(* the collaborator.                                                       *)
(***************************************************************************)
\* new McpServer({...}): no tool registered
NewMcpServer == [tools |-> <<>>]

ToolNames(server) == {server.tools[i].name : i \in 1..Len(server.tools)}

Lookup(server, name) ==
    LET i == CHOOSE i \in 1..Len(server.tools) : server.tools[i].name = name
    IN server.tools[i]

\* server.tool(name, schema, handler): throws when the registration is rejected
\* (the name is already registered, or the library refuses it)
McpServerTool(server, tool, rejects) ==
    IF tool.name \in ToolNames(server) \/ tool.name \in rejects
    THEN [threw |-> TRUE, server |-> server]
    ELSE [threw |-> FALSE, server |-> [tools |-> Append(server.tools, tool)]]

NoRpc == [kind |-> "none", code |-> "", content |-> <<>>]
RpcError(code) == [kind |-> "error", code |-> code, content |-> <<>>]
RpcResult(content) == [kind |-> "result", code |-> "", content |-> content]

\* the dispatch of one call by a transport: look the tool up, validate the
\* arguments against its schema, and only then invoke its handler with the context
Dispatch(server, call, context) ==
    IF call.name \notin ToolNames(server)
    THEN [rpc |-> RpcError("unknown-operation"), handlerRuns |-> <<>>]
    ELSE LET tool == Lookup(server, call.name)
         IN IF ~Validate(tool.schema, call.arguments)
            THEN [rpc |-> RpcError("validation"), handlerRuns |-> <<>>]
            ELSE LET out == Invoke(tool.handler, call.arguments, context)
                 IN [rpc |-> RpcResult(out.content),
                     handlerRuns |-> <<[tool |-> tool.name,
                                        arguments |-> call.arguments,
                                        authToken |-> out.logged]>>]

(***************************************************************************)
(* MyMCP, the Durable Object class                                         *)
(***************************************************************************)
\* mutant: init() awaits before it registers, so the constructor returns and
\* fetch runs with nothing registered yet
MyMCPInitDeferred(server, rejects) == [rejected |-> FALSE, server |-> server]

\* async init(): registers add, then calculate.  A throw of server.tool
\* inside the async function rejects the promise init() returns; the tools
\* registered before the throw stay registered.
MyMCPInit(server, rejects) ==
    LET r1 == McpServerTool(server, AddTool, rejects)
    IN IF r1.threw THEN [rejected |-> TRUE, server |-> r1.server]
       ELSE LET r2 == McpServerTool(r1.server, CalculateTool, rejects)
            IN [rejected |-> r2.threw, server |-> r2.server]

\* constructor(state, env): stores state, creates the server, calls
\* this.init() without awaiting the promise it returns
MyMCPConstructor(state, rejects) ==
    LET init == MyMCPInit(NewMcpServer, rejects)
    IN [threw |-> FALSE,
        instance |-> [state |-> state,
                      server |-> init.server,
                      initRejected |-> init.rejected]]

HeadersGet(headers, name) ==
    IF name = "Authorization" THEN headers.authorization ELSE headers.xAuthToken

\* mutant: the slice keeps the space that ends the prefix
ExtractAuthTokenSlice6(request) ==
    LET authHeader == HeadersGet(request.headers, "Authorization")
    IN IF authHeader.defined /\ authHeader.value # ""
          /\ StartsWith(authHeader.value, "Bearer ")
       THEN [threw |-> FALSE, authToken |-> Some(Slice(authHeader.value, 6))]
       ELSE [threw |-> FALSE, authToken |-> Absent]

\* fetch, step 1: the token after "Bearer " of the Authorization header
ExtractAuthToken(request) ==
    LET authHeader == HeadersGet(request.headers, "Authorization")
    IN IF authHeader.defined /\ authHeader.value # ""
          /\ StartsWith(authHeader.value, "Bearer ")
       THEN [threw |-> FALSE, authToken |-> Some(Slice(authHeader.value, 7))]
       ELSE [threw |-> FALSE, authToken |-> Absent]

\* mutant: the instance keeps the token of the first request it delegated
CallContextCached(request) ==
    LET earlier == {j \in 1..Len(reqs) : reqs[j].call.adapter # ""}
    IN IF earlier = {} THEN [authToken |-> ExtractAuthToken(request).authToken]
       ELSE reqs[CHOOSE j \in earlier : \A k \in earlier : j <= k].call.context

\* fetch, step 2: const context = { authToken }
CallContext(request) == [authToken |-> ExtractAuthToken(request).authToken]

\* a request: its URL, its headers and the tools/call its body carries
Request(pathname, search, authorization, xAuthToken, body) ==
    [url |-> [pathname |-> pathname, search |-> search],
     headers |-> [authorization |-> authorization, xAuthToken |-> xAuthToken],
     body |-> body]

Call(name, operation, a, b) ==
    [name |-> name, arguments |-> [operation |-> operation, a |-> a, b |-> b]]

NoRequest == Request("", "", Absent, Absent, Call("", Undefined, Undefined, Undefined))
NoAdapter == [adapter |-> "", mount |-> "", request |-> NoRequest, state |-> "",
              context |-> [authToken |-> Absent]]
NoResponse == [status |-> 0, body |-> ""]
Response(body, status) == [status |-> status, body |-> body]

\* mutant: the transports are selected by prefix, as the Worker forwards
SelectTransportByPrefix(pathname) ==
    IF StartsWith(pathname, "/sse") THEN "serveSSE"
    ELSE IF StartsWith(pathname, "/mcp") THEN "serve"
    ELSE ""

\* the transport fetch selects by url.pathname: "serveSSE", "serve" or none
SelectTransport(pathname) ==
    IF pathname = "/sse" \/ pathname = "/sse/message" THEN "serveSSE"
    ELSE IF pathname = "/mcp" THEN "serve"
    ELSE ""

\* mutant: a path the instance does not handle makes fetch throw
MyMCPFetchThrowing(self, request) ==
    LET transport == SelectTransport(request.url.pathname)
    IN IF transport = ""
       THEN [kind |-> "throw", call |-> NoAdapter, response |-> NoResponse]
       ELSE [kind |-> "delegate",
             call |-> [adapter |-> transport,
                       mount |-> IF transport = "serve" THEN "/mcp" ELSE "/sse",
                       request |-> request, state |-> self.state,
                       context |-> CallContext(request)],
             response |-> NoResponse]

\* async fetch(request) of the instance self: what it returns before the
\* transport runs, either a delegation to a transport or its own response
MyMCPFetch(self, request) ==
    LET transport == SelectTransport(request.url.pathname)
        context == CallContext(request)
    IN IF ExtractAuthToken(request).threw
       THEN [kind |-> "throw", call |-> NoAdapter, response |-> NoResponse]
       ELSE IF transport = "serveSSE"
       THEN [kind |-> "delegate",
             call |-> [adapter |-> "serveSSE", mount |-> "/sse",
                       request |-> request, state |-> self.state,
                       context |-> context],
             response |-> NoResponse]
       ELSE IF transport = "serve"
       THEN [kind |-> "delegate",
             call |-> [adapter |-> "serve", mount |-> "/mcp",
                       request |-> request, state |-> self.state,
                       context |-> context],
             response |-> NoResponse]
       ELSE [kind |-> "respond", call |-> NoAdapter,
             response |-> Response("Not found within Durable Object", 404)]

(***************************************************************************)
(* The Worker entry point (default.fetch)                                  *)
(***************************************************************************)
NoId == [kind |-> "", key |-> ""]
\* env.MCP_OBJECT.idFromName(name)
IdFromName(name) == [kind |-> "name", key |-> name]
\* env.MCP_OBJECT.newUniqueId(), the n-th one
NewUniqueId(n) == [kind |-> "unique", key |-> NatToString(n)]

\* mutant: the prefixes are searched anywhere in the path
RouterForwardsContaining(pathname) ==
    \E k \in 1..Len(pathname) :
        \/ StartsWith(Slice(pathname, k - 1), "/mcp")
        \/ StartsWith(Slice(pathname, k - 1), "/sse")

\* mutant: the Worker forwards only the paths the instance handles
RouterForwardsExact(pathname) == pathname \in {"/mcp", "/sse", "/sse/message"}

\* whether the Worker forwards the path to the Durable Object
RouterForwards(pathname) == StartsWith(pathname, "/mcp") \/ StartsWith(pathname, "/sse")

\* mutant: a new Durable Object per request
ServiceIdentifierUnique(n) == NewUniqueId(n)

\* the id the Worker resolves for its n-th request
ServiceIdentifier(n) == IdFromName("MySingleMCPInstance")

\* mutant: the body of the 404 is the bare "Not found"
WorkerFetchBareBody(request, n) ==
    IF RouterForwards(request.url.pathname)
    THEN [forward |-> TRUE, id |-> ServiceIdentifier(n), response |-> NoResponse]
    ELSE [forward |-> FALSE, id |-> NoId, response |-> Response("Not found", 404)]

\* default.fetch up to its await: forward to the stub of the fixed name, or 404
WorkerFetch(request, n) ==
    IF RouterForwards(request.url.pathname)
    THEN [forward |-> TRUE, id |-> ServiceIdentifier(n), response |-> NoResponse]
    ELSE [forward |-> FALSE, id |-> NoId,
          response |-> Response("Not found in Worker entry point", 404)]

(***************************************************************************)
(* The requests of a run                                                   *)
(***************************************************************************)
Paths == {"/mcp", "/sse", "/sse/message", "/mcp/x", "/sse/other", "/mcpfoo",
          "/", "/api/mcp"}

\* header values as Headers.get returns them: no leading or trailing whitespace
AuthorizationValues ==
    {p \o t : p \in {"Bearer ", "bearer ", "Bearer", "Basic ", "Token Bearer ", ""},
              t \in {"x", "y", "x y", "xBearer y", "Bearer x"}}
    \cup {"Bearer", "bearer", "Basic", "", "Bearer  x"}

NumberValues ==
    {Num(-3, 2), Num(0, 1), Num(1, 2), Num(3, 2), Num(2, 1),
     Num(3, 1), Num(4, 1), Num(5, 1), Num(10, 1)}

ArgumentValues == NumberValues \cup {StringValue("2"), Undefined}

OperationValues ==
    {StringValue(o) : o \in OperationEnum} \cup {StringValue("power"), Undefined}

RECURSIVE Pow10(_)
Pow10(k) == IF k = 0 THEN 1 ELSE 10 * Pow10(k - 1)

\* whether String() writes x exactly within FractionDigits digits
IsShortDecimal(x) == x.den # 0 /\ Pow10(FractionDigits) % x.den = 0

SampleCall == Call("add", Undefined, Num(2, 1), Num(3, 1))

\* routing and lifecycle: every path, with no token and two different tokens
RoutingRequests ==
    {Request(p, "", h, Absent, SampleCall) :
        p \in Paths, h \in {Absent, Some("Bearer x"), Some("Bearer y")}}

\* credential extraction: every Authorization value, with and without another
\* header and a query parameter that carry a token
AuthRequests ==
    {Request(p, q, h, x, SampleCall) :
        p \in {"/mcp", "/sse/message", "/mcp/x"},
        q \in {"", "?token=z"},
        h \in {Absent} \cup {Some(v) : v \in AuthorizationValues},
        x \in {Absent, Some("Bearer z")}}

\* the calls of a run of tool dispatch: calculate with every operation and
\* every pair of arguments, add with every pair, and an unregistered name.
\* A quotient that String() would have to round is left out.
ToolCalls ==
    {c \in {Call("calculate", o, a, b) :
                o \in OperationValues, a \in ArgumentValues, b \in ArgumentValues} :
        (/\ c.arguments.operation = StringValue("divide")
         /\ c.arguments.a \in NumberValues
         /\ c.arguments.b \in NumberValues \ {Num(0, 1)})
        => IsShortDecimal(NumDiv(c.arguments.a, c.arguments.b))}
    \cup {Call("add", o, a, b) :
                o \in {Undefined, StringValue("divide")},
                a \in ArgumentValues, b \in ArgumentValues}
    \cup {Call(n, Undefined, a, Num(3, 1)) :
                n \in {"nosuch", "subtract"}, a \in {Num(2, 1), Undefined}}

ToolRequests ==
    {Request(p, "", Some("Bearer x"), Absent, c) :
        p \in {"/mcp", "/sse/message"}, c \in ToolCalls}

\* repeated calls: a valid call, sent again and again with the same token,
\* and another call that may run in between
RepeatedCalls ==
    {Call("add", Undefined, a, b) : a \in {Num(2, 1), Num(-3, 2), Num(10, 1)},
                                    b \in {Num(0, 1), Num(1, 2), Num(5, 1)}}
    \cup {Call("calculate", StringValue(o), a, b) :
                o \in OperationEnum,
                a \in {Num(2, 1), Num(-3, 2), Num(10, 1)},
                b \in {Num(0, 1), Num(1, 2), Num(5, 1)}}

BetweenCalls ==
    {Call("calculate", StringValue("divide"), Num(5, 1), Num(0, 1)),
     Call("add", Undefined, StringValue("2"), Num(3, 1)),
     Call("add", Undefined, Num(4, 1), Num(3, 1)),
     Call("nosuch", Undefined, Num(2, 1), Num(3, 1))}

\* the request every run of tool dispatch can also send
SampleRequest == Request("/mcp", "", Some("Bearer y"), Absent, SampleCall)

(***************************************************************************)
(* State machine                                                           *)
(***************************************************************************)
NewRecord(request) ==
    [request |-> request, pc |-> "forwarded", id |-> NoId, servedBy |-> 0,
     call |-> NoAdapter, rpc |-> NoRpc, handlerRuns |-> <<>>,
     response |-> NoResponse]

TypeOK ==
    /\ Len(reqs) <= MaxRequests
    /\ \A i \in 1..Len(reqs) : reqs[i].pc \in {"forwarded", "transport", "done", "fault"}

InitWith(p, t) ==
    /\ pool = p
    /\ toolThrows = t
    /\ objects = <<>>
    /\ constructed = 0
    /\ reqs = <<>>

\* the Worker receives a request, the run holding at most limit of them, and
\* runs default.fetch up to stub.fetch
ReceiveUpTo(limit) ==
    \E request \in pool :
        /\ Len(reqs) < limit
        /\ LET w == WorkerFetch(request, Len(reqs) + 1)
           IN reqs' = Append(reqs,
                  IF w.forward
                  THEN [NewRecord(request) EXCEPT !.id = w.id]
                  ELSE [NewRecord(request) EXCEPT !.pc = "done",
                                                   !.response = w.response])
        /\ UNCHANGED <<pool, toolThrows, objects, constructed>>

Receive == ReceiveUpTo(MaxRequests)
ReceiveCall == ReceiveUpTo(MaxCalls)

\* whether an instance exists for the id
Located(id) == \E k \in 1..Len(objects) : objects[k].id = id
InstanceOf(objs, id) ==
    LET k == CHOOSE k \in 1..Len(objs) : objs[k].id = id IN objs[k]

\* stub.fetch(request) arrives: the platform locates the instance of the id,
\* constructing it when there is none, and runs its fetch up to the transport
StubFetch(i) ==
    /\ reqs[i].pc = "forwarded"
    /\ LET id == reqs[i].id
           made == MyMCPConstructor(id.key, toolThrows)
           create == ~Located(id)
           objs == IF create /\ ~made.threw
                   THEN Append(objects, [id |-> id, serial |-> constructed + 1,
                                         instance |-> made.instance])
                   ELSE objects
       IN /\ objects' = objs
          /\ constructed' = IF create THEN constructed + 1 ELSE constructed
          /\ IF create /\ made.threw
             THEN reqs' = [reqs EXCEPT ![i].pc = "done",
                                       ![i].response = Response("exception", 500)]
             ELSE LET obj == InstanceOf(objs, id)
                      f == MyMCPFetch(obj.instance, reqs[i].request)
                  IN reqs' = [reqs EXCEPT
                        ![i].servedBy = obj.serial,
                        ![i].pc = IF f.kind = "delegate" THEN "transport" ELSE "done",
                        ![i].call = f.call,
                        ![i].response = IF f.kind = "throw"
                                        THEN Response("exception", 500)
                                        ELSE f.response]
    /\ UNCHANGED <<pool, toolThrows>>

\* the transport handles the request: it dispatches the call of the body to
\* the registry of the instance and answers
TransportRespond(i) ==
    /\ reqs[i].pc = "transport"
    /\ LET obj == InstanceOf(objects, reqs[i].id)
           d == Dispatch(obj.instance.server, reqs[i].call.request.body,
                         reqs[i].call.context)
       IN reqs' = [reqs EXCEPT ![i].pc = "done",
                               ![i].rpc = d.rpc,
                               ![i].handlerRuns = d.handlerRuns,
                               ![i].response = Response("rpc", 200)]
    /\ UNCHANGED <<pool, toolThrows, objects, constructed>>

\* the forwarded call fails (the platform cannot reach the instance):
\* stub.fetch rejects, default.fetch returns that promise and catches nothing
ForwardFails(i) ==
    /\ reqs[i].pc = "forwarded"
    /\ reqs' = [reqs EXCEPT ![i].pc = "fault"]
    /\ UNCHANGED <<pool, toolThrows, objects, constructed>>

\* the transport fails: its fetch rejects, MyMCP.fetch returns that promise
\* and catches nothing, and neither does default.fetch
TransportFails(i) ==
    /\ reqs[i].pc = "transport"
    /\ reqs' = [reqs EXCEPT ![i].pc = "fault"]
    /\ UNCHANGED <<pool, toolThrows, objects, constructed>>

Next ==
    \/ Receive
    \/ \E i \in 1..Len(reqs) : StubFetch(i)
    \/ \E i \in 1..Len(reqs) : TransportRespond(i)

\* routing, lifecycle and concurrency
Init == InitWith(RoutingRequests, {})
Spec == Init /\ [][Next]_vars

\* credential extraction over every header value
InitAuth == \E r \in AuthRequests : InitWith({r}, {})
SpecAuth == InitAuth /\ [][Next]_vars

\* tool dispatch over every call
InitTools == \E r \in ToolRequests : InitWith({r, SampleRequest}, {})
SpecTools == InitTools /\ [][Next]_vars

\* repeated calls with other calls in between
NextRepeat ==
    \/ ReceiveCall
    \/ \E i \in 1..Len(reqs) : StubFetch(i)
    \/ \E i \in 1..Len(reqs) : TransportRespond(i)

InitRepeat ==
    \E c \in RepeatedCalls, d \in BetweenCalls :
        InitWith({Request("/mcp", "", Some("Bearer x"), Absent, c),
                  Request("/mcp", "", Some("Bearer y"), Absent, d)}, {})
SpecRepeat == InitRepeat /\ [][NextRepeat]_vars

\* failures of the forwarded call and of the transport
FaultRequests ==
    {Request(p, "", Some("Bearer x"), Absent, c) :
        p \in {"/mcp", "/sse/message", "/mcp/x", "/other"},
        c \in {SampleCall,
                Call("nosuch", Undefined, Num(2, 1), Num(3, 1)),
                Call("add", Undefined, StringValue("2"), Num(3, 1))}}

NextFault ==
    \/ Next
    \/ \E i \in 1..Len(reqs) : ForwardFails(i)
    \/ \E i \in 1..Len(reqs) : TransportFails(i)

InitFault == InitWith(FaultRequests, {})
SpecFault == InitFault /\ [][NextFault]_vars

\* one request sent with no credential, with a bearer token and with another
\* authorization scheme
InitCredential ==
    \E p \in {"/mcp", "/sse/message", "/mcp/x", "/other"},
       c \in RepeatedCalls \cup BetweenCalls :
        InitWith({Request(p, "", h, Absent, c) :
                     h \in {Absent, Some("Bearer x"), Some("Basic x")}}, {})
SpecCredential == InitCredential /\ [][Next]_vars

\* the library rejecting registrations during construction
InitRegFail == \E t \in SUBSET {"add", "calculate"} : InitWith(RoutingRequests, t)
SpecRegFail == InitRegFail /\ [][Next]_vars

(***************************************************************************)
(* Properties                                                              *)
(***************************************************************************)
Suffixes(s) == {SubSeq(s, k, Len(s)) : k \in 1..(Len(s) + 1)}
HasPrefix(s, p) == \E t \in Suffixes(s) : s = p \o t
UnderService(request) ==
    HasPrefix(request.url.pathname, "/mcp") \/ HasPrefix(request.url.pathname, "/sse")

\* the credential of a request: X when its Authorization header is
\* "Bearer " followed by X, absent otherwise
BearerCredential(request) ==
    LET h == request.headers.authorization
        xs == IF h.defined THEN {t \in Suffixes(h.value) : h.value = "Bearer " \o t}
              ELSE {}
    IN IF xs = {} THEN Absent ELSE Some(CHOOSE t \in xs : TRUE)

Delivered(i) == reqs[i].servedBy # 0
Delegated(i) == reqs[i].call.adapter # ""

\* C1: a request whose path starts with neither /mcp nor /sse is answered 404
\* by the Worker at once, with no id resolved, no instance constructed for it
\* and nothing forwarded; an instance exists only if a request under /mcp or
\* /sse was delivered.
C1_RouterRejectsLocally ==
    /\ \A i \in 1..Len(reqs) :
          ~UnderService(reqs[i].request) =>
              /\ reqs[i].pc = "done"
              /\ reqs[i].response.status = 404
              /\ reqs[i].id = NoId
              /\ ~Delivered(i)
              /\ ~Delegated(i)
              /\ reqs[i].handlerRuns = <<>>
    /\ (constructed > 0 \/ objects # <<>>) =>
          \E i \in 1..Len(reqs) : UnderService(reqs[i].request) /\ Delivered(i)

C1_Witness ==
    \E i, j \in 1..Len(reqs) :
        /\ i < j
        /\ Delivered(i)
        /\ constructed = 1
        /\ reqs[j].request.url.pathname = "/api/mcp"
        /\ reqs[j].response.status = 404

C3_Credential ==
    \A i \in 1..Len(reqs) :
        /\ Delegated(i) =>
              reqs[i].call.context.authToken = BearerCredential(reqs[i].request)
        /\ reqs[i].response.status # 500

C3_Witness ==
    \E i \in 1..Len(reqs) :
        /\ Delegated(i)
        /\ reqs[i].request.headers.authorization = Some("Bearer x y")
        /\ reqs[i].request.headers.xAuthToken.defined
        /\ reqs[i].request.url.search # ""
        /\ reqs[i].call.context.authToken = Some("x y")

\* C4: the instance delegates /sse and /sse/message to the streaming
\* transport, /mcp to the single-response transport, and answers 404 itself
\* on any other path without a transport; a transport receives the request,
\* the state handle of the instance and the context of this request.
C4_TransportByPath ==
    \A i \in 1..Len(reqs) :
        Delivered(i) =>
            LET path == reqs[i].request.url.pathname
                want == IF path \in {"/sse", "/sse/message"} THEN "serveSSE"
                        ELSE IF path = "/mcp" THEN "serve" ELSE ""
            IN /\ reqs[i].call.adapter = want
               /\ want = "" =>
                     /\ reqs[i].pc = "done"
                     /\ reqs[i].response.status = 404
                     /\ reqs[i].call = NoAdapter
                     /\ reqs[i].rpc = NoRpc
                     /\ reqs[i].handlerRuns = <<>>
               /\ want # "" =>
                     /\ reqs[i].call.request = reqs[i].request
                     /\ reqs[i].call.state = InstanceOf(objects, reqs[i].id).instance.state
                     /\ reqs[i].call.context = CallContext(reqs[i].request)

C4_Witness ==
    \E i, j \in 1..Len(reqs) :
        /\ reqs[i].request.url.pathname = "/sse/message"
        /\ reqs[i].call.adapter = "serveSSE"
        /\ reqs[j].request.url.pathname = "/mcp"
        /\ reqs[j].call.adapter = "serve"
        /\ reqs[i].call.context = reqs[j].call.context
        /\ reqs[i].call.context.authToken = Some("x")

\* C5: the context a transport and a handler receive for a request carries
\* the credential of that request, whatever other requests are in flight, and
\* a context is never changed once created.
C5_OwnContext ==
    /\ [](\A i \in 1..Len(reqs) :
            Delegated(i) =>
                /\ reqs[i].call.context.authToken = BearerCredential(reqs[i].request)
                /\ \A k \in 1..Len(reqs[i].handlerRuns) :
                      reqs[i].handlerRuns[k].authToken
                          = BearerCredential(reqs[i].request))
    /\ [][\A i \in 1..Len(reqs) :
            Delegated(i) => reqs'[i].call = reqs[i].call]_vars

C5_Witness ==
    /\ Len(reqs) = 2
    /\ reqs[1].pc = "transport"
    /\ reqs[1].call.context.authToken = Some("x")
    /\ reqs[2].pc = "done"
    /\ Len(reqs[2].handlerRuns) = 1
    /\ reqs[2].handlerRuns[1].authToken = Some("y")

\* C6: an instance whose registration failed never serves a fetch: every
\* instance that exists registered add and calculate without a failure.
C6_RegistrationFailureFatal ==
    \A k \in 1..Len(objects) :
        /\ ~objects[k].instance.initRejected
        /\ ToolNames(objects[k].instance.server) = {"add", "calculate"}

\* the decimal text of a number, read back
DigitValue(c) == CHOOSE d \in 0..9 : Digit(d) = c
IsDigits(t) == Len(t) > 0 /\ \A k \in 1..Len(t) : \E d \in 0..9 : SubSeq(t, k, k) = Digit(d)

RECURSIVE ParseNat(_)
ParseNat(t) ==
    IF t = "" THEN 0
    ELSE 10 * ParseNat(SubSeq(t, 1, Len(t) - 1)) + DigitValue(SubSeq(t, Len(t), Len(t)))

ParseUnsigned(t) ==
    LET dots == {k \in 1..Len(t) : SubSeq(t, k, k) = "."}
    IN IF dots = {}
       THEN (IF IsDigits(t) THEN Num(ParseNat(t), 1) ELSE Undefined)
       ELSE LET k == CHOOSE k \in dots : TRUE
                whole == SubSeq(t, 1, k - 1)
                frac == SubSeq(t, k + 1, Len(t))
            IN IF IsDigits(whole) /\ IsDigits(frac)
               THEN Num(ParseNat(whole) * Pow10(Len(frac)) + ParseNat(frac), Pow10(Len(frac)))
               ELSE Undefined

ParseNumber(t) ==
    IF Len(t) > 1 /\ SubSeq(t, 1, 1) = "-"
    THEN LET u == ParseUnsigned(SubSeq(t, 2, Len(t)))
         IN IF u.type = "number" THEN Num(-u.num, u.den) ELSE Undefined
    ELSE ParseUnsigned(t)

IsNumeric(v) == v.type = "number"
Answered(i) == reqs[i].pc = "done" /\ Delegated(i)
CallOf(i) == reqs[i].request.body
ValidCall(c) ==
    /\ IsNumeric(c.arguments.a) /\ IsNumeric(c.arguments.b)
    /\ \/ c.name = "add"
       \/ /\ c.name = "calculate"
          /\ c.arguments.operation.type = "string"
          /\ c.arguments.operation.str \in {"add", "subtract", "multiply", "divide"}

\* C7: a transport runs a handler exactly when the tool is registered and the
\* arguments pass its schema; an unregistered name gives an unknown-operation
\* failure and invalid arguments a validation failure, both without a handler
\* run, and a valid call gets its result whatever failed before it.
C7_DispatchGuards ==
    \A i \in 1..Len(reqs) :
        Answered(i) =>
            LET c == CallOf(i) IN
            IF c.name \notin {"add", "calculate"}
            THEN reqs[i].rpc = RpcError("unknown-operation") /\ reqs[i].handlerRuns = <<>>
            ELSE IF ~ValidCall(c)
            THEN reqs[i].rpc = RpcError("validation") /\ reqs[i].handlerRuns = <<>>
            ELSE /\ reqs[i].rpc.kind = "result"
                 /\ Len(reqs[i].handlerRuns) = 1
                 /\ reqs[i].handlerRuns[1].tool = c.name
                 /\ reqs[i].handlerRuns[1].arguments = c.arguments

C7_Witness ==
    \E i, j \in 1..Len(reqs) :
        /\ i < j
        /\ Answered(i)
        /\ CallOf(i).name = "add"
        /\ CallOf(i).arguments.a = StringValue("2")
        /\ reqs[i].rpc = RpcError("validation")
        /\ Answered(j)
        /\ reqs[j].rpc.kind = "result"

IsDivide(c) ==
    /\ c.name = "calculate" /\ ValidCall(c)
    /\ c.arguments.operation.str = "divide"

\* C8: calculate divide with b = 0 succeeds with the single text item
\* "Error: Cannot divide by zero", and divide with b # 0 never gives that text.
C8_DivideByZero ==
    \A i \in 1..Len(reqs) :
        (Answered(i) /\ IsDivide(CallOf(i))) =>
            IF CallOf(i).arguments.b.num = 0
            THEN reqs[i].rpc = RpcResult(<<[type |-> "text",
                                            text |-> "Error: Cannot divide by zero"]>>)
            ELSE /\ reqs[i].rpc.kind = "result"
                 /\ \A k \in 1..Len(reqs[i].rpc.content) :
                       reqs[i].rpc.content[k].text # "Error: Cannot divide by zero"

C8_Witness ==
    \E i \in 1..Len(reqs) :
        /\ Answered(i) /\ IsDivide(CallOf(i))
        /\ CallOf(i).arguments.a = Num(5, 1)
        /\ CallOf(i).arguments.b = Num(0, 1)
        /\ reqs[i].rpc.kind = "result"
        /\ reqs[i].rpc.content[1].text = "Error: Cannot divide by zero"

\* the number a valid call asks for
Asked(c) ==
    LET a == c.arguments.a
        b == c.arguments.b
        op == IF c.name = "add" THEN "add" ELSE c.arguments.operation.str
    IN IF op = "add" THEN NumAdd(a, b)
       ELSE IF op = "subtract" THEN NumSub(a, b)
       ELSE IF op = "multiply" THEN NumMul(a, b)
       ELSE NumDiv(a, b)

TextOf(i) == reqs[i].rpc.content[1].text

\* C9: a valid add or calculate call (divide with b # 0) returns exactly one
\* text item, whose text is the decimal text of a + b, a - b, a * b or a / b;
\* add(2,3) gives "5", calculate(divide,10,2) gives "5",
\* calculate(multiply,4,0.5) gives "2", add(-1.5,1.5) gives "0".
C9_Arithmetic ==
    \A i \in 1..Len(reqs) :
        (/\ Answered(i) /\ ValidCall(CallOf(i))
         /\ ~(IsDivide(CallOf(i)) /\ CallOf(i).arguments.b.num = 0)) =>
            /\ reqs[i].rpc.kind = "result"
            /\ Len(reqs[i].rpc.content) = 1
            /\ reqs[i].rpc.content[1].type = "text"
            /\ ParseNumber(TextOf(i)) = Asked(CallOf(i))
            /\ CallOf(i) = Call("add", Undefined, Num(2, 1), Num(3, 1)) => TextOf(i) = "5"
            /\ CallOf(i) = Call("add", Undefined, Num(-3, 2), Num(3, 2)) => TextOf(i) = "0"
            /\ CallOf(i) = Call("calculate", StringValue("divide"), Num(10, 1), Num(2, 1))
                  => TextOf(i) = "5"
            /\ CallOf(i) = Call("calculate", StringValue("multiply"), Num(4, 1), Num(1, 2))
                  => TextOf(i) = "2"
            /\ CallOf(i) = Call("calculate", StringValue("subtract"), Num(1, 2), Num(2, 1))
                  => TextOf(i) = "-1.5"

C9_Witness ==
    \E i, j \in 1..Len(reqs) :
        /\ Answered(i) /\ Answered(j)
        /\ CallOf(i) = Call("calculate", StringValue("add"), Num(2, 1), Num(3, 1))
        /\ CallOf(j) = Call("add", Undefined, Num(2, 1), Num(3, 1))
        /\ TextOf(i) = "5"
        /\ TextOf(j) = TextOf(i)

\* C10 as stated: every 404 carries the body "Not found".
C10_BodyNotFound ==
    \A i \in 1..Len(reqs) :
        reqs[i].response.status = 404 => reqs[i].response.body = "Not found"

\* C10, amended: an answered request whose path is none of /mcp, /sse,
\* /sse/message gets 404; the body is "Not found in Worker entry point"
\* when the Worker detects the miss and "Not found within Durable Object"
\* when the instance does.
C10_NotFoundBodies ==
    \A i \in 1..Len(reqs) :
        (/\ reqs[i].pc = "done"
         /\ reqs[i].request.url.pathname \notin {"/mcp", "/sse", "/sse/message"}) =>
            /\ reqs[i].response.status = 404
            /\ reqs[i].response.body =
                  (IF Delivered(i) THEN "Not found within Durable Object"
                   ELSE "Not found in Worker entry point")
            /\ Delivered(i) = UnderService(reqs[i].request)

C10_Witness ==
    \E i, j \in 1..Len(reqs) :
        /\ reqs[i].pc = "done" /\ reqs[j].pc = "done"
        /\ reqs[i].request.url.pathname = "/"
        /\ reqs[i].response.body = "Not found in Worker entry point"
        /\ reqs[j].request.url.pathname = "/mcpfoo"
        /\ reqs[j].response.body = "Not found within Durable Object"

\* C11: two answered add or calculate calls with the same arguments and the
\* same context have the same result, whatever was called in between, and
\* handling a request leaves every instance as it was constructed.
C11_Idempotent ==
    /\ [](\A i, j \in 1..Len(reqs) :
            (/\ Answered(i) /\ Answered(j)
             /\ CallOf(i).name \in {"add", "calculate"}
             /\ CallOf(i) = CallOf(j)
             /\ reqs[i].call.context = reqs[j].call.context) =>
                /\ reqs[i].rpc = reqs[j].rpc
                /\ reqs[i].handlerRuns = reqs[j].handlerRuns)
    /\ [][\A k \in 1..Len(objects) : objects'[k] = objects[k]]_vars

C11_Witness ==
    /\ Len(reqs) = 3
    /\ \A i \in 1..3 : Answered(i)
    /\ CallOf(1) = CallOf(3)
    /\ CallOf(1) = Call("calculate", StringValue("divide"), Num(10, 1), Num(1, 2))
    /\ CallOf(2) = Call("add", Undefined, Num(4, 1), Num(3, 1))
    /\ reqs[1].call.context = reqs[3].call.context
    /\ TextOf(1) = "20"
    /\ TextOf(3) = "20"
    /\ TextOf(2) = "7"

\* C12 as stated: no request ends in a failure that escapes fetch unhandled.
C12_NoUnhandledFault == \A i \in 1..Len(reqs) : reqs[i].pc # "fault"

\* C12, amended: a routing miss is answered 404 by the Worker or the
\* instance, an unknown operation and a validation failure are answered by the
\* transport, and a valid call is answered with its result whatever failed
\* before it; only a failure of the forwarded call or of the transport ends a
\* request without a response, and only for a path the Worker forwards.
C12_ErrorsBecomeResponses ==
    \A i \in 1..Len(reqs) :
        /\ reqs[i].pc = "done" =>
              LET c == CallOf(i)
                  path == reqs[i].request.url.pathname
              IN IF path \notin {"/mcp", "/sse", "/sse/message"}
                 THEN reqs[i].response.status = 404 /\ reqs[i].rpc = NoRpc
                 ELSE /\ reqs[i].response = [status |-> 200, body |-> "rpc"]
                      /\ reqs[i].rpc =
                            (IF c.name \notin {"add", "calculate"}
                             THEN RpcError("unknown-operation")
                             ELSE IF ~ValidCall(c) THEN RpcError("validation")
                             ELSE RpcResult(reqs[i].rpc.content))
        /\ reqs[i].pc = "fault" =>
              /\ UnderService(reqs[i].request)
              /\ reqs[i].response = NoResponse
              /\ reqs[i].handlerRuns = <<>>

C12_Witness ==
    \E i, j \in 1..Len(reqs) :
        /\ i < j
        /\ reqs[i].pc = "fault"
        /\ Delegated(i)
        /\ Answered(j)
        /\ reqs[j].rpc.kind = "result"

\* C13: every instance that exists, and so every instance that serves a
\* fetch, holds exactly the descriptors add and calculate, each once, from
\* its construction on; no step changes the registry of an instance.
C13_RegistryComplete ==
    /\ [](\A k \in 1..Len(objects) :
            LET tools == objects[k].instance.server.tools
            IN /\ Len(tools) = 2
               /\ {tools[n].name : n \in 1..Len(tools)} = {"add", "calculate"}
               /\ \A n \in 1..Len(tools) :
                     /\ tools[n].schema = tools[n].name
                     /\ tools[n].handler = tools[n].name)
    /\ [](\A i \in 1..Len(reqs) : Delivered(i) => Located(reqs[i].id))
    /\ [][\A k \in 1..Len(objects) :
            objects'[k].instance.server = objects[k].instance.server]_vars

C13_Witness ==
    /\ Len(objects) = 1
    /\ Len(objects[1].instance.server.tools) = 2
    /\ \E i, j \in 1..Len(reqs) :
          /\ i # j
          /\ Answered(i)
          /\ reqs[i].rpc.kind = "result"
          /\ reqs[j].pc = "transport"

SameButAuthorization(r1, r2) ==
    /\ r1.url = r2.url
    /\ r1.body = r2.body
    /\ r1.headers.xAuthToken = r2.headers.xAuthToken

\* the tools a request made run, with their arguments
ToolsRun(i) ==
    [k \in 1..Len(reqs[i].handlerRuns) |->
        [tool |-> reqs[i].handlerRuns[k].tool,
         arguments |-> reqs[i].handlerRuns[k].arguments]]

\* C14: two requests that differ only in their Authorization header get the
\* same transport, run the same tool and get the same response and result;
\* the header decides nothing but the credential in the context.
C14_NotEnforced ==
    \A i, j \in 1..Len(reqs) :
        SameButAuthorization(reqs[i].request, reqs[j].request) =>
            /\ (Delivered(i) /\ Delivered(j)) =>
                  /\ reqs[i].call.adapter = reqs[j].call.adapter
                  /\ reqs[i].call.mount = reqs[j].call.mount
                  /\ reqs[i].call.state = reqs[j].call.state
            /\ (reqs[i].pc = "done" /\ reqs[j].pc = "done") =>
                  /\ reqs[i].response = reqs[j].response
                  /\ reqs[i].rpc = reqs[j].rpc
                  /\ ToolsRun(i) = ToolsRun(j)
            /\ Delegated(i) =>
                  reqs[i].call.context.authToken = BearerCredential(reqs[i].request)

C14_Witness ==
    \E i, j \in 1..Len(reqs) :
        /\ Answered(i) /\ Answered(j)
        /\ reqs[i].request.headers.authorization = Absent
        /\ reqs[j].request.headers.authorization = Some("Bearer x")
        /\ CallOf(i) = Call("add", Undefined, Num(2, 1), Num(5, 1))
        /\ CallOf(j) = CallOf(i)
        /\ reqs[i].call.context.authToken = Absent
        /\ reqs[j].call.context.authToken = Some("x")
        /\ TextOf(i) = "7"
        /\ TextOf(j) = "7"

\* C15: the Worker forwards every path the instance handles, and also every
\* other path that starts with /mcp or /sse: such a request resolves the
\* service id, is delivered to the singleton (constructing it when it is the
\* first), reaches no transport and gets the 404 of the instance, not the
\* Worker's.
C15_ForwardedButUnhandled ==
    \A i \in 1..Len(reqs) :
        LET path == reqs[i].request.url.pathname
            handled == path \in {"/mcp", "/sse", "/sse/message"}
        IN /\ handled => reqs[i].id = [kind |-> "name", key |-> "MySingleMCPInstance"]
           /\ (UnderService(reqs[i].request) /\ ~handled) =>
                 /\ reqs[i].id = [kind |-> "name", key |-> "MySingleMCPInstance"]
                 /\ reqs[i].pc \in {"forwarded", "done"}
                 /\ reqs[i].pc = "done" =>
                       /\ reqs[i].servedBy = 1
                       /\ constructed = 1
                       /\ ~Delegated(i)
                       /\ reqs[i].handlerRuns = <<>>
                       /\ reqs[i].response =
                             [status |-> 404, body |-> "Not found within Durable Object"]
                       /\ reqs[i].response.body # "Not found in Worker entry point"

C15_Witness ==
    /\ Len(reqs) = 2
    /\ reqs[1].request.url.pathname = "/mcpfoo"
    /\ reqs[1].pc = "done"
    /\ reqs[1].servedBy = 1
    /\ reqs[2].request.url.pathname = "/sse/other"
    /\ reqs[2].pc = "forwarded"
    /\ constructed = 1
    /\ reqs[1].response.body = "Not found within Durable Object"

====
